---- MODULE Spec2Model ----
(***************************************************************************)
(* The Telegram wiper engine of services/telegramwiper.js (the variant     *)
(* with the dynamic auto-wipe schedule, lines 63-478): the poll loop, the  *)
(* wipe, the message index, the self-destruct timers and startup, as       *)
(* interleaved asynchronous tasks of one JavaScript event loop.  A step of *)
(* the model is one synchronous run of code between two suspension points  *)
(* (an await of a network call, or a timer firing).                        *)
(***************************************************************************)
EXTENDS Integers, Sequences, FiniteSets, TLC

\* ------------------------------------------------------------------ bounds
MaxEvents == 3      \* updates the platform ever holds (update_id 1..MaxEvents)
MaxBacklog == 2     \* updates already waiting when the process starts
MaxMsgId == 4       \* message ids the platform hands out (1..MaxMsgId)
MaxCronTicks == 1   \* firings of the recurring auto-wipe job
MaxReplays == 1     \* batches the platform answers from below the offset
MaxSame == 1        \* updates of one kind (each command, pin notice, other chat)
MaxJobs == 3        \* recurring jobs ever created
MaxSince == 4       \* days counted since the last firing of the job
MaxLoopEvents == 2  \* updates the platform holds in the loop specifications
\* MAX_TRACKED_PER_CHAT is 500 in the source; the model scales the cap down
\* so that the trim in trackMessage is reached.
MAX_TRACKED_PER_CHAT == 4

GroupChat == "group"    \* the chat whose id is TELEGRAM_CHAT_ID
OtherChat == "other"    \* any other chat the bot receives updates from
Chats == {GroupChat, OtherChat}

UserChat == "user"      \* the private chat of the user who sent a command
SecondUser == "user2"   \* the private chat of another user
NoSender == "none"      \* msg.from is absent (a channel post)
WipeCmd == "/wipe@Amsterdamnbot"
StatusCmd == "/status@Amsterdamnbot"
Texts == {"hello", WipeCmd, StatusCmd}
PasswordCmd == "/password@Amsterdamnbot"
HelpCmd == "/help@Amsterdamnbot"
DashboardCmd == "/dashboard@Amsterdamnbot"
WebsiteCmd == "/website@Amsterdamnbot"
SetCmd == "/setautowipe@Amsterdamnbot"
SetCmdLonger == "/setautowipe@Amsterdamnbots"   \* SetCmd and one more character
WipeBare == "/wipe"                             \* the command without the bot name
\* the commands answered by one sendTempMessage
ReplyCmds == {StatusCmd, HelpCmd, DashboardCmd, WebsiteCmd}
null == 0               \* null / undefined / absent id
NaN == -1               \* not a number (every comparison with it is false)

MsgIds == 1..MaxMsgId

VARIABLES
  \* the platform
  events,            \* the update stream: events[i] has update_id i
  pinned,            \* the group chat's pinned message id, or null
  nextMsgId,         \* next message id the platform assigns
  confirmed,         \* updates below this id are confirmed (forgotten)
  backlog,           \* number of updates that existed at process start
  replays,           \* batches answered from below the requested offset
  calendar,          \* the wall clock: day of month, length of month, instant
  credentials,       \* process.env: "present", "noToken" or "noChat"
  \* module state of telegramwiper.js
  nextUpdateOffset, pollingTimeout, pollingActive, isWiping, trackedMessages,
  pendingPolls,      \* poll timers pending in the event loop
  timers,            \* message ids with a pending self-destruct timer
  \* startTelegramBot
  startPc,
  \* pollTelegram (one invocation past the guard at a time)
  pollPc, pollOffset, pollBatch, pollIdx,
  \* wipeMessages (one invocation past the guard at a time)
  wipePc, wipeCaller, pinnedId, uniqueIds, wipeIdx,
  \* the auto-wipe schedule
  currentCronJob,    \* the job handle the module holds (a job id), or null
  autoWipeSchedule,  \* the stored (hours, time)
  cronJobs,          \* node-cron: the jobs that are scheduled and not stopped
  nextJobId,         \* node-cron: the id of the next job created
  privateTimers,     \* (chat, message id) of private messages with a pending 60 s timer
  \* history (not read by the program)
  hist

platformVars == <<events, pinned, nextMsgId, confirmed, backlog>>

engineVars == <<nextUpdateOffset, pollingTimeout, pollingActive, isWiping,
                trackedMessages, pendingPolls, timers, startPc,
                pollPc, pollOffset, pollBatch, pollIdx,
                wipePc, wipeCaller, pinnedId, uniqueIds, wipeIdx,
                currentCronJob, autoWipeSchedule, cronJobs, nextJobId,
                privateTimers, hist>>
vars == <<events, pinned, nextMsgId, confirmed, backlog, replays, calendar,
          credentials,
          nextUpdateOffset, pollingTimeout, pollingActive, isWiping,
          trackedMessages, pendingPolls, timers, startPc,
          pollPc, pollOffset, pollBatch, pollIdx,
          wipePc, wipeCaller, pinnedId, uniqueIds, wipeIdx,
          currentCronJob, autoWipeSchedule, cronJobs, nextJobId,
          privateTimers, hist>>

\* the schedule, the job handle and node-cron's jobs
schedVars == <<currentCronJob, autoWipeSchedule, cronJobs, nextJobId>>

\* ------------------------------------------------------------ sequences
Range(s) == {s[i] : i \in 1..Len(s)}

Min2(a, b) == IF a < b THEN a ELSE b

Max2(a, b) == IF a > b THEN a ELSE b

\* arr.indexOf(x): first index holding x, or 0 (JavaScript's -1)
indexOf(arr, x) ==
  IF x \in Range(arr)
  THEN CHOOSE i \in 1..Len(arr) : arr[i] = x /\ \A j \in 1..(i - 1) : arr[j] # x
  ELSE 0

\* arr.splice(idx, 1)
RemoveAt(arr, idx) == SubSeq(arr, 1, idx - 1) \o SubSeq(arr, idx + 1, Len(arr))

\* faulty variant: the snapshot is not de-duplicated
SetOrderDup(arr) == arr

\* [...new Set(arr)]: first occurrences, in insertion order
RECURSIVE SetOrder(_)
SetOrder(arr) ==
  IF arr = <<>> THEN <<>>
  ELSE LET front == SetOrder(SubSeq(arr, 1, Len(arr) - 1))
           last == arr[Len(arr)]
       IN IF last \in Range(front) THEN front ELSE Append(front, last)

\* ------------------------------------------------------- the message index
\* faulty variant: no trim
TrackBucketNoTrim(arr, messageId) == Append(arr, messageId)

\* trackMessage on one bucket
TrackBucket(arr, messageId) ==
  LET a == Append(arr, messageId)
  IN IF Len(a) > MAX_TRACKED_PER_CHAT
     THEN SubSeq(a, Len(a) - MAX_TRACKED_PER_CHAT + 1, Len(a))
     ELSE a

trackMessage(tm, chatId, messageId) ==
  IF messageId = null THEN tm
  ELSE [tm EXCEPT ![chatId] = TrackBucket(tm[chatId], messageId)]

\* faulty variant: splice without the check of indexOf: splice(-1, 1) removes the
\* last entry
UntrackBucketNoCheck(arr, messageId) ==
  LET idx == indexOf(arr, messageId)
  IN IF idx # 0 THEN RemoveAt(arr, idx) ELSE SubSeq(arr, 1, Len(arr) - 1)

\* removeTrackedMessage on one bucket
UntrackBucket(arr, messageId) ==
  LET idx == indexOf(arr, messageId)
  IN IF idx # 0 THEN RemoveAt(arr, idx) ELSE arr

removeTrackedMessage(tm, chatId, messageId) ==
  IF chatId \notin DOMAIN tm THEN tm
  ELSE [tm EXCEPT ![chatId] = UntrackBucket(tm[chatId], messageId)]

\* faulty variant: the bucket is kept when there is no pin
resetTrackedMessagesKeep(tm, chatId, pinId) ==
  IF pinId # null THEN [tm EXCEPT ![chatId] = <<pinId>>] ELSE tm

\* an absent key and an empty array are both the empty bucket
resetTrackedMessages(tm, chatId, pinId) ==
  IF pinId # null THEN [tm EXCEPT ![chatId] = <<pinId>>]
  ELSE [tm EXCEPT ![chatId] = <<>>]

\* ------------------------------------------------ strings and numbers
\* A token of a command's arguments is a sequence of characters.
Digits == {"0", "1", "2", "3", "4", "5", "6", "7", "8", "9"}

DigitVal(c) ==
  CASE c = "0" -> 0 [] c = "1" -> 1 [] c = "2" -> 2 [] c = "3" -> 3
    [] c = "4" -> 4 [] c = "5" -> 5 [] c = "6" -> 6 [] c = "7" -> 7
    [] c = "8" -> 8 [] c = "9" -> 9

RECURSIVE DigitsValue(_)
DigitsValue(s) ==
  IF s = <<>> THEN 0
  ELSE 10 * DigitsValue(SubSeq(s, 1, Len(s) - 1)) + DigitVal(s[Len(s)])

\* Number(s) on a string without blanks or sign: its decimal value, NaN
\* when a character is not a digit
Number(s) ==
  IF \A i \in 1..Len(s) : s[i] \in Digits THEN DigitsValue(s) ELSE NaN

\* parseInt(s) on a string without blanks or sign: the value of the longest
\* prefix of digits, NaN when there is none
parseInt(s) ==
  LET n == CHOOSE k \in 0..Len(s) :
             /\ \A i \in 1..k : s[i] \in Digits
             /\ k = Len(s) \/ s[k + 1] \notin Digits
  IN IF n = 0 THEN NaN ELSE DigitsValue(SubSeq(s, 1, n))

\* s.split(sep) for a separator of one character
RECURSIVE split(_, _)
split(s, sep) ==
  IF sep \notin Range(s) THEN <<s>>
  ELSE LET i == indexOf(s, sep)
       IN <<SubSeq(s, 1, i - 1)>> \o split(SubSeq(s, i + 1, Len(s)), sep)

\* /^\d{2}:\d{2}$/.test(time)
TimePattern(time) ==
  /\ Len(time) = 5
  /\ \A i \in {1, 2, 4, 5} : time[i] \in Digits
  /\ time[3] = ":"

\* ------------------------------------------------- the auto-wipe schedule
\* the default time of day "03:00"
DefaultTime == <<"0", "3", ":", "0", "0">>

\* A cron expression "minute hour day-of-month * *": the minute is a number,
\* the hour a number (every = 0) or a step (* / every), the day of month
\* any day (days = 0) or a step (* / days).
CronExpr(minute, hour, every, days) ==
  [minute |-> minute, hour |-> hour, every |-> every, days |-> days]

\* faulty variant: hours = 24 is not told apart from the other intervals
cronExpressionNoDaily(hours, time) ==
  LET parts == split(time, ":")
      hour == Number(parts[1])
      minute == Number(parts[2])
  IN IF hours = 48 THEN CronExpr(minute, hour, 0, 2)
     ELSE IF hours = 72 THEN CronExpr(minute, hour, 0, 3)
     ELSE CronExpr(minute, 0, hours, 0)

\* the expression updateAutoWipeSchedule derives from (hours, time)
cronExpression(hours, time) ==
  LET parts == split(time, ":")
      hour == Number(parts[1])
      minute == Number(parts[2])
  IN IF hours = 24 THEN CronExpr(minute, hour, 0, 0)
     ELSE IF hours = 48 THEN CronExpr(minute, hour, 0, 2)
     ELSE IF hours = 72 THEN CronExpr(minute, hour, 0, 3)
     ELSE CronExpr(minute, 0, hours, 0)

\* node-cron validates the expression when a job is created and throws on a
\* value out of its field's range (minute 0-59, hour 0-23)
ValidExpression(x) ==
  /\ x.minute \in 0..59
  /\ x.every = 0 => x.hour \in 0..23

\* updateAutoWipeSchedule(hours, time) up to its return, or up to the throw
\* of cron.schedule
updateAutoWipeSchedule(e, hours, time) ==
  LET x == cronExpression(hours, time)
      job == [id |-> e.nextJobId, cronExpression |-> x]
      stopped == [e EXCEPT !.cronJobs = {j \in @ : j.id # e.currentCronJob},
                           !.currentCronJob = null,
                           !.autoWipeSchedule = [hours |-> hours, time |-> time]]
  IN IF ValidExpression(x)
     THEN [stopped EXCEPT !.cronJobs = @ \cup {job},
                          !.currentCronJob = job.id,
                          !.nextJobId = @ + 1]
     ELSE stopped

\* ------------------------------------------------- the engine as a record
\* The module state a synchronous run of code reads and writes.  An action
\* applies the run to Cur and commits the result.
Cur ==
  [nextUpdateOffset |-> nextUpdateOffset, pollingTimeout |-> pollingTimeout,
   pollingActive |-> pollingActive, isWiping |-> isWiping,
   trackedMessages |-> trackedMessages, pendingPolls |-> pendingPolls,
   timers |-> timers, pollPc |-> pollPc, pollIdx |-> pollIdx,
   wipePc |-> wipePc, wipeCaller |-> wipeCaller, pinnedId |-> pinnedId,
   uniqueIds |-> uniqueIds, wipeIdx |-> wipeIdx,
   currentCronJob |-> currentCronJob, autoWipeSchedule |-> autoWipeSchedule,
   cronJobs |-> cronJobs, nextJobId |-> nextJobId,
   privateTimers |-> privateTimers, hist |-> hist]

Commit(e) ==
  /\ nextUpdateOffset' = e.nextUpdateOffset
  /\ pollingTimeout' = e.pollingTimeout
  /\ pollingActive' = e.pollingActive
  /\ isWiping' = e.isWiping
  /\ trackedMessages' = e.trackedMessages
  /\ pendingPolls' = e.pendingPolls
  /\ timers' = e.timers
  /\ pollPc' = e.pollPc
  /\ pollIdx' = e.pollIdx
  /\ wipePc' = e.wipePc
  /\ wipeCaller' = e.wipeCaller
  /\ pinnedId' = e.pinnedId
  /\ uniqueIds' = e.uniqueIds
  /\ wipeIdx' = e.wipeIdx
  /\ currentCronJob' = e.currentCronJob
  /\ autoWipeSchedule' = e.autoWipeSchedule
  /\ cronJobs' = e.cronJobs
  /\ nextJobId' = e.nextJobId
  /\ privateTimers' = e.privateTimers
  /\ hist' = e.hist

\* clearTimeout(pollingTimeout): cancels the timer if it has not fired yet
clearPollTimeout(e) ==
  IF e.pollingTimeout = "armed"
  THEN [e EXCEPT !.pendingPolls = @ - 1]
  ELSE e

\* faulty variant: the stored timer is not cancelled
scheduleNextPollNoClear(e) ==
  [e EXCEPT !.pollingTimeout = "armed", !.pendingPolls = Min2(@ + 1, 2)]

\* scheduleNextPoll(delayMs)
scheduleNextPoll(e) ==
  LET c == IF e.pollingTimeout # "null" THEN clearPollTimeout(e) ELSE e
  IN [c EXCEPT !.pollingTimeout = "armed", !.pendingPolls = @ + 1]

\* ---------------------------------------------------------- wipeMessages
\* faulty variant: no guard: a wipe starts whenever it is requested
wipeGuardNone(e) == TRUE

\* the guard of wipeMessages: a wipe starts only when none is in flight
wipeGuard(e) == ~e.isWiping

\* wipeMessages from its call to the await of getPinnedMessageId
wipeMessages(e, caller) ==
  IF ~wipeGuard(e)
  THEN [e EXCEPT !.hist.rejected = TRUE]
  ELSE LET c == IF e.pollingTimeout # "null"
                THEN [clearPollTimeout(e) EXCEPT !.pollingTimeout = "null"]
                ELSE e
       IN [c EXCEPT !.isWiping = TRUE,
                    !.wipePc = "getPinnedMessageId",
                    !.wipeCaller = caller,
                    !.hist.accepted = @ + 1,
                    !.hist.wipeLog = <<>>,
                    !.hist.snapshot = <<>>,
                    !.hist.failed = 0]

\* the reset of the index and the call of the confirmation's sendMessage
wipeReset(e) ==
  [e EXCEPT !.trackedMessages = resetTrackedMessages(@, GroupChat, e.pinnedId),
            !.wipePc = "sendMessage",
            !.wipeIdx = 0,
            !.hist.sinceReset = {},
            !.hist.confirms = @ + 1]

\* the message ids of the updates in which a command was recognised
CommandIds(h) ==
  {events[i].message_id : i \in {k \in 1..Len(events) : h.action[k] # "none"}}

\* the delete loop from position j to the next await of deleteMessage
\* (hist.issued: the command messages a delete was issued for)
RECURSIVE wipeLoop(_, _)
wipeLoop(e, j) ==
  IF j > Len(e.uniqueIds) THEN wipeReset(e)
  ELSE IF e.uniqueIds[j] = e.pinnedId THEN wipeLoop(e, j + 1)
  ELSE [e EXCEPT !.wipePc = "deleteMessage",
                 !.wipeIdx = j,
                 !.hist.wipeLog = Append(@, e.uniqueIds[j]),
                 !.hist.issued = @ \cup ({e.uniqueIds[j]} \cap CommandIds(e.hist))]

\* ---------------------------------------------------------- pollTelegram
\* the finally block
pollFinally(e) ==
  LET f == [e EXCEPT !.pollingActive = FALSE, !.pollPc = "idle", !.pollIdx = 0,
                     !.hist.inflight = @ - 1]
  IN IF ~f.isWiping THEN scheduleNextPoll(f) ELSE f

\* the tracking of one update of the configured chat
pollTrack(e, u) ==
  [e EXCEPT !.trackedMessages =
               trackMessage(trackMessage(@, u.chat, u.message_id),
                            u.chat, u.pinned_message),
            !.hist.dispatched[u.update_id] = Min2(@ + 1, 2),
            !.hist.sinceReset = (@ \cup {u.message_id, u.pinned_message}) \ {null}]

\* faulty variant: the reply to /password goes to the chat of the command
userChatIdGroup(msg) == msg.chat

\* msg.from.id: the private chat of the sender of the command
userChatId(msg) == msg.from

\* text === cmd
TextIs(u, cmd) == u.text = cmd /\ u.args = <<>>

\* text.startsWith(prefix), for the texts the model knows
startsWith(text, prefix) ==
  text = prefix \/ (prefix = SetCmd /\ text = SetCmdLonger)

\* the checks of the /setautowipe branch on parts[1..2] (args), given that
\* parts.length is Len(args) + 1
setAutoWipeAccepts(args) ==
  /\ Len(args) = 2
  /\ parseInt(args[1]) >= 1
  /\ parseInt(args[1]) <= 168
  /\ TimePattern(args[2])

\* the /setautowipe branch up to its await of sendTempMessage, or up to the
\* throw of updateAutoWipeSchedule (caught by pollTelegram: the rest of the
\* batch is dropped and the finally block runs)
setAutoWipe(e, u, i) ==
  LET hours == parseInt(u.args[1])
      time == u.args[2]
      reply == [e EXCEPT !.pollPc = "sendTempMessage", !.pollIdx = i]
  IN IF setAutoWipeAccepts(u.args)
     THEN LET s == updateAutoWipeSchedule(
                     [e EXCEPT !.hist.action[u.update_id] = "reconfigure"],
                     hours, time)
          IN IF ValidExpression(cronExpression(hours, time))
             THEN [s EXCEPT !.pollPc = "sendTempMessage", !.pollIdx = i]
             ELSE pollFinally(s)
     ELSE [reply EXCEPT !.hist.action[u.update_id] = "usage"]

\* String(TELEGRAM_CHAT_ID): "undefined" when the variable is not set
TELEGRAM_CHAT_ID ==
  IF credentials = "noChat" THEN "undefined" ELSE GroupChat

\* the for loop over the batch b from position i to the next await,
\* or through the finally block
RECURSIVE pollLoop(_, _, _)
pollLoop(e, b, i) ==
  IF i > Len(b) THEN pollFinally(e)
  ELSE LET u == events[b[i]]
       IN IF u.chat # TELEGRAM_CHAT_ID THEN pollLoop(e, b, i + 1)
          ELSE LET t == pollTrack(e, u)
                   act(name) == [t EXCEPT !.hist.action[u.update_id] = name]
               IN IF TextIs(u, WipeCmd)
                  THEN IF wipeGuard(t)
                       THEN [wipeMessages(act("wipe"), "poll") EXCEPT
                               !.pollPc = "wipeMessages", !.pollIdx = i]
                       ELSE pollLoop(wipeMessages(act("wipe"), "poll"), b, i + 1)
                  ELSE IF TextIs(u, PasswordCmd)
                  THEN IF u.from = NoSender
                       THEN pollFinally(act("password"))  \* msg.from.id throws
                       ELSE [act("password") EXCEPT
                               !.pollPc = "sendPrivateMessage", !.pollIdx = i]
                  ELSE IF \E c \in ReplyCmds : TextIs(u, c)
                  THEN [act("reply") EXCEPT
                          !.pollPc = "sendTempMessage", !.pollIdx = i]
                  ELSE IF startsWith(u.text, SetCmd)
                  THEN setAutoWipe(t, u, i)
                  ELSE pollLoop(t, b, i + 1)

\* ------------------------------------------------------------- the platform
\* an update carrying a message of a chat; a pin notice carries the pinned id
\* (text is the message text up to its first space, args the rest of
\* text.split(" "); from is the sender's id)
Update(id, chat, mid, text, pin) ==
  [update_id |-> id, chat |-> chat, message_id |-> mid, text |-> text,
   pinned_message |-> pin, args |-> <<>>, from |-> UserChat]

\* the platform knows the bot of the URL (bot${TELEGRAM_BOT_TOKEN})
TokenKnown == credentials # "noToken"

\* the platform accepts a call that names the bot and the configured chat
Accepts == {TRUE, FALSE} \cap {credentials = "present", FALSE}

\* getUpdates(offset): the updates from the offset on, by update_id
getUpdates(offset) ==
  [k \in 1..(Len(events) - Max2(offset, 1) + 1) |-> Max2(offset, 1) + k - 1]

\* a batch answered from below the requested offset (replayed, out of order)
Replayed(offset) ==
  {[k \in 1..(hi - lo + 1) |-> lo + k - 1] :
     lo \in 1..Min2(offset - 1, Len(events)), hi \in 1..Len(events)}
    \ {<<>>}

\* the updates of one chat and text so far
Count(chat, text) ==
  Cardinality({i \in 1..Len(events) :
                 events[i].chat = chat /\ events[i].text = text})

InitHist ==
  [dispatched |-> [i \in 1..MaxEvents |-> 0],
   sinceReset |-> {}, wipeLog |-> <<>>, snapshot |-> <<>>,
   accepted |-> 0, rejected |-> FALSE, confirms |-> 0,
   overlap |-> FALSE, cronTicks |-> 0, fetched |-> FALSE, lateDelete |-> FALSE,
   action |-> [i \in 1..MaxEvents |-> "none"], firedJob |-> 0,
   secret |-> {}, privateDeleted |-> {},
   since |-> -1, gap |-> -1, fires |-> 0, fired |-> FALSE, request |-> <<>>,
   polled |-> FALSE, tempSent |-> {}, failed |-> 0, inflight |-> 0, batched |-> {}, wiped |-> FALSE, confirmation |-> null, issued |-> {},
   op |-> [name |-> "none", chatId |-> GroupChat, id |-> null,
           outcome |-> "none"]]

\* faulty variant: the module does not schedule the default job
LoadedNoJob ==
  [currentCronJob |-> null, cronJobs |-> {}, nextJobId |-> 1,
   autoWipeSchedule |-> [hours |-> 48, time |-> DefaultTime]]

\* the schedule after the module ran updateAutoWipeSchedule(48, "03:00")
Loaded ==
  updateAutoWipeSchedule(
    [currentCronJob |-> null, cronJobs |-> {}, nextJobId |-> 1,
     autoWipeSchedule |-> [hours |-> 48, time |-> DefaultTime]],
    48, DefaultTime)

\* the module is loaded (the default job is scheduled) and startTelegramBot
\* has been called: it awaits the send of the online message
InitEngine ==
  /\ backlog \in 0..MaxBacklog
  /\ events = [i \in 1..backlog |-> Update(i, GroupChat, i, "hello", null)]
  /\ nextMsgId = backlog + 1
  /\ pinned = null
  /\ confirmed = 0
  /\ replays = 0
  /\ nextUpdateOffset = 0
  /\ pollingTimeout = "null"
  /\ pendingPolls = 0
  /\ pollingActive = FALSE
  /\ isWiping = FALSE
  /\ trackedMessages = [c \in Chats |-> <<>>]
  /\ timers = {}
  /\ startPc = "sendMessage"
  /\ pollPc = "idle"
  /\ pollOffset = 0
  /\ pollBatch = <<>>
  /\ pollIdx = 0
  /\ wipePc = "idle"
  /\ wipeCaller = "none"
  /\ pinnedId = null
  /\ uniqueIds = <<>>
  /\ wipeIdx = 0
  /\ currentCronJob = Loaded.currentCronJob
  /\ autoWipeSchedule = Loaded.autoWipeSchedule
  /\ cronJobs = Loaded.cronJobs
  /\ nextJobId = Loaded.nextJobId
  /\ privateTimers = {}
  /\ hist = InitHist

\* the clock is not looked at
Init ==
  /\ InitEngine
  /\ calendar = [day |-> 1, length |-> 31, at |-> 1, stepFrom |-> 0]
  /\ credentials = "present"

\* ----------------------------------------------------- platform actions
\* somebody posts a message (plain or a command) in the group, or a /wipe
\* in another chat
NewMessage ==
  /\ Len(events) < MaxEvents
  /\ nextMsgId <= MaxMsgId
  /\ \E chat \in Chats, text \in Texts :
       /\ chat = OtherChat => text = WipeCmd
       /\ (chat = OtherChat \/ text # "hello") => Count(chat, text) < MaxSame
       /\ events' = Append(events,
                           Update(Len(events) + 1, chat, nextMsgId, text, null))
  /\ nextMsgId' = nextMsgId + 1
  /\ UNCHANGED <<pinned, confirmed, backlog, replays, calendar, credentials>>
  /\ UNCHANGED engineVars

\* somebody pins a message of the group: the platform posts a pin notice
NewPin ==
  /\ Len(events) < MaxEvents
  /\ nextMsgId <= MaxMsgId
  /\ Count(GroupChat, "") < MaxSame
  /\ \E p \in 1..(nextMsgId - 1) :
       /\ events' = Append(events,
                           Update(Len(events) + 1, GroupChat, nextMsgId, "", p))
       /\ pinned' = p
  /\ nextMsgId' = nextMsgId + 1
  /\ UNCHANGED <<confirmed, backlog, replays, calendar, credentials>>
  /\ UNCHANGED engineVars

\* ------------------------------------------------------ startTelegramBot
\* the online message is answered: on success getUpdates(null, 1) is called,
\* a thrown fetch goes to the catch block and nothing is scheduled
StartSent ==
  /\ startPc = "sendMessage"
  /\ \E ok \in BOOLEAN : startPc' = IF ok THEN "getUpdates" ELSE "done"
  /\ UNCHANGED <<platformVars, replays, calendar, credentials>>
  /\ UNCHANGED <<nextUpdateOffset, pollingTimeout, pollingActive, isWiping,
                 trackedMessages, pendingPolls, timers,
                 pollPc, pollOffset, pollBatch, pollIdx,
                 wipePc, wipeCaller, pinnedId, uniqueIds, wipeIdx,
                 privateTimers, hist>>
  /\ UNCHANGED schedVars

\* getUpdates(null, 1) is answered: the earliest unconfirmed update, or
\* nothing (no update, or a failed call, which getUpdates turns into [])
StartGotUpdates ==
  /\ startPc = "getUpdates"
  /\ \E initialUpdates \in {<<>>} \cup
          (IF TokenKnown
           THEN {<<i>> : i \in {Max2(confirmed, 1)} \cap (1..Len(events))}
           ELSE {}) :
       Commit(scheduleNextPoll(
         [Cur EXCEPT !.nextUpdateOffset =
                        IF Len(initialUpdates) > 0
                        THEN initialUpdates[Len(initialUpdates)] + 1
                        ELSE 0,
                     !.hist.fetched = Len(initialUpdates) > 0]))
  /\ startPc' = "done"
  /\ UNCHANGED <<platformVars, replays, calendar, credentials>>
  /\ UNCHANGED <<pollOffset, pollBatch>>

\* ---------------------------------------------------------- pollTelegram
\* faulty variant: the guard does not look at pollingActive
pollBlockedByWipe(e) == e.isWiping

\* the guard of pollTelegram: the tick returns at once
pollBlocked(e) == e.pollingActive \/ e.isWiping

\* the poll timer fires: the guard, then the call of getUpdates
\* (hist.inflight counts the ticks that passed the guard
\* and have not left through the finally block)
PollTick ==
  /\ pendingPolls > 0
  /\ LET e == [Cur EXCEPT !.pendingPolls = @ - 1,
                          !.pollingTimeout =
                             IF pendingPolls = 1 /\ @ = "armed" THEN "fired" ELSE @]
     IN IF pollBlocked(Cur)
        THEN /\ Commit(e)
             /\ UNCHANGED <<pollOffset, confirmed>>
        ELSE /\ Commit([e EXCEPT !.pollingActive = TRUE,
                                 !.pollPc = "getUpdates",
                                 !.hist.overlap = @ \/ startPc # "done",
                                 !.hist.polled = TRUE,
                                 !.hist.inflight = Min2(@ + 1, 2),
                                 !.hist.wiped = FALSE])
             /\ pollOffset' = nextUpdateOffset
             /\ confirmed' = Max2(confirmed, nextUpdateOffset)
  /\ UNCHANGED <<events, pinned, nextMsgId, backlog, replays, calendar, credentials>>
  /\ UNCHANGED <<startPc, pollBatch>>

\* the cursor after a fetched batch
advance(offset, updates) ==
  IF Len(updates) > 0 THEN updates[Len(updates)] + 1 ELSE offset

\* getUpdates is answered: the cursor is set, then the batch is dispatched
\* (hist.batched holds the updates the poll ticks have fetched)
pollDispatch(updates) ==
  /\ pollBatch' = updates
  /\ Commit(pollLoop([Cur EXCEPT !.nextUpdateOffset = advance(@, updates),
                                 !.hist.batched = @ \cup Range(updates)],
                     updates, 1))
  /\ UNCHANGED <<platformVars, calendar, credentials>>
  /\ UNCHANGED <<startPc, pollOffset>>

\* the platform answers with the updates from the offset on, or the call
\* fails (getUpdates turns a failure into [])
PollGotUpdates ==
  /\ pollPc = "getUpdates"
  /\ \E updates \in {<<>>} \cup
          (IF TokenKnown THEN {getUpdates(pollOffset)} ELSE {}) :
       pollDispatch(updates)
  /\ UNCHANGED replays

\* the platform answers with a batch from below the requested offset
PollGotReplay ==
  /\ pollPc = "getUpdates"
  /\ replays < MaxReplays
  /\ replays' = replays + 1
  /\ \E updates \in Replayed(pollOffset) : pollDispatch(updates)

\* faulty variant: the reply is tracked but gets no self-destruct timer
sendTempMessageNoTimer(e, chatId, messageId) ==
  IF messageId # null
  THEN [e EXCEPT !.trackedMessages = trackMessage(@, chatId, messageId),
                 !.hist.sinceReset = @ \cup {messageId},
                 !.hist.tempSent = @ \cup {messageId}]
  ELSE e

\* sendTempMessage after its fetch: messageId is the id of the message sent,
\* or null when data.ok is false or the fetch threw
sendTempMessage(e, chatId, messageId) ==
  IF messageId # null
  THEN [e EXCEPT !.trackedMessages = trackMessage(@, chatId, messageId),
                 !.timers = @ \cup {messageId},
                 !.hist.sinceReset = @ \cup {messageId},
                 !.hist.tempSent = @ \cup {messageId}]
  ELSE e

\* the sendMessage of sendTempMessage is answered; on success the reply is
\* tracked and given a self-destruct timer; then the command message gets
\* its 2 s timer and the loop goes on
PollTempSent ==
  /\ pollPc = "sendTempMessage"
  /\ \E ok \in Accepts \cap {nextMsgId <= MaxMsgId, FALSE} :
       LET cmd == events[pollBatch[pollIdx]]
           sent == sendTempMessage(Cur, GroupChat,
                                   IF ok THEN nextMsgId ELSE null)
       IN /\ Commit(pollLoop([sent EXCEPT !.timers = @ \cup {cmd.message_id}],
                             pollBatch, pollIdx + 1))
          /\ nextMsgId' = IF ok THEN nextMsgId + 1 ELSE nextMsgId
  /\ UNCHANGED <<events, pinned, confirmed, backlog, replays, calendar, credentials>>
  /\ UNCHANGED <<startPc, pollOffset, pollBatch>>

\* the id the platform gives the next message of a private chat
PrivateMsgId(chat) == 1 + Cardinality({s \in hist.secret : s.to = chat})

\* the sendMessage of sendPrivateMessage (the /password reply, which holds
\* ADMIN_PASS) is answered: on success the private message gets its 60 s
\* timer; then the command message gets its 2 s timer and the loop goes on
\* (the platform numbers the messages of each chat on their own, here from
\* 1: the id of a private message is also the id of a message of the group)
PollPrivateSent ==
  /\ pollPc = "sendPrivateMessage"
  /\ \E message_id \in {null} \cup
          (IF TokenKnown
           THEN {PrivateMsgId(userChatId(events[pollBatch[pollIdx]]))} \cap MsgIds
           ELSE {}) :
       LET cmd == events[pollBatch[pollIdx]]
           sent == IF message_id # null
                   THEN [Cur EXCEPT
                           !.privateTimers =
                              @ \cup {[chat |-> userChatId(cmd),
                                       message_id |-> message_id]},
                           !.hist.secret =
                              @ \cup {[to |-> userChatId(cmd),
                                       message_id |-> message_id,
                                       update_id |-> cmd.update_id]}]
                   ELSE Cur
       IN Commit(pollLoop([sent EXCEPT !.timers = @ \cup {cmd.message_id}],
                          pollBatch, pollIdx + 1))
  /\ UNCHANGED <<platformVars, replays, calendar, credentials>>
  /\ UNCHANGED <<startPc, pollOffset, pollBatch>>

\* --------------------------------------------------- self-destruct timers
\* faulty variant: the id is untracked in the configured chat's bucket,
\* whatever the chat of the message
deleteMessageAnyChat(tm, chatId, message_id, resolved) ==
  IF resolved THEN removeTrackedMessage(tm, GroupChat, message_id) ELSE tm

\* deleteMessage after its fetch: the id is untracked when the fetch
\* resolved (whatever the platform answered), not when it threw
deleteMessage(tm, chatId, message_id, resolved) ==
  IF resolved THEN removeTrackedMessage(tm, chatId, message_id) ELSE tm

\* a self-destruct timer has fired and the fetch of its deleteMessage is
\* answered (the call itself changes nothing in the engine, so the step is
\* taken at the answer)
TimerDelete ==
  /\ \E m \in timers, resolved \in BOOLEAN :
       /\ timers' = timers \ {m}
       /\ trackedMessages' = deleteMessage(trackedMessages, GroupChat, m, resolved)
       /\ hist' = [hist EXCEPT !.lateDelete =
                      @ \/ (resolved /\ m \notin Range(trackedMessages[GroupChat])),
                                !.issued = @ \cup ({m} \cap CommandIds(hist))]
  /\ UNCHANGED <<platformVars, replays, calendar, credentials>>
  /\ UNCHANGED <<nextUpdateOffset, pollingTimeout, pollingActive, isWiping,
                 pendingPolls, startPc,
                 pollPc, pollOffset, pollBatch, pollIdx,
                 wipePc, wipeCaller, pinnedId, uniqueIds, wipeIdx,
                 privateTimers>>
  /\ UNCHANGED schedVars

\* the 60 s timer of a private message has fired and the fetch of its
\* deleteMessage is answered
PrivateTimerDelete ==
  /\ \E m \in privateTimers, resolved \in BOOLEAN :
       /\ privateTimers' = privateTimers \ {m}
       /\ trackedMessages' =
            deleteMessage(trackedMessages, m.chat, m.message_id, resolved)
       /\ hist' = [hist EXCEPT !.privateDeleted = @ \cup {m}]
  /\ UNCHANGED <<platformVars, replays, calendar, credentials>>
  /\ UNCHANGED <<nextUpdateOffset, pollingTimeout, pollingActive, isWiping,
                 pendingPolls, timers, startPc,
                 pollPc, pollOffset, pollBatch, pollIdx,
                 wipePc, wipeCaller, pinnedId, uniqueIds, wipeIdx>>
  /\ UNCHANGED schedVars

\* ---------------------------------------------------------- wipeMessages
\* the recurring job fires and calls wipeMessages
CronTick ==
  /\ hist.cronTicks < MaxCronTicks
  /\ \E job \in cronJobs :
       Commit(wipeMessages([Cur EXCEPT !.hist.cronTicks = @ + 1,
                                       !.hist.firedJob = job.id], "cron"))
  /\ UNCHANGED <<platformVars, replays, calendar, credentials>>
  /\ UNCHANGED <<startPc, pollOffset, pollBatch>>

\* getPinnedMessageId after its fetch: the pinned id, or null when the chat
\* has no pin or the call failed
getPinnedMessageId(ok) == IF ok THEN pinned ELSE null

\* getPinnedMessageId is answered: the snapshot is taken and the delete
\* loop runs to its first deleteMessage
WipeGotPinned ==
  /\ wipePc = "getPinnedMessageId"
  /\ \E ok \in Accepts :
       LET tracked == trackedMessages[GroupChat]
       IN Commit(wipeLoop([Cur EXCEPT !.pinnedId = getPinnedMessageId(ok),
                                      !.uniqueIds = SetOrder(tracked),
                                      !.hist.snapshot = tracked],
                          1))
  /\ UNCHANGED <<platformVars, replays, calendar, credentials>>
  /\ UNCHANGED <<startPc, pollOffset, pollBatch>>

\* the deleteMessage of the loop with the outcome of its fetch (hist.failed
\* is the position in the log of the first delete whose fetch threw)
loopDelete(e, resolved) ==
  [e EXCEPT !.trackedMessages =
               deleteMessage(@, GroupChat, e.uniqueIds[e.wipeIdx], resolved),
            !.hist.failed =
               IF ~resolved /\ @ = 0 THEN Len(e.hist.wipeLog) ELSE @]

\* faulty variant: deleteMessage does not catch, the error leaves
\* wipeMessages
deleteAnsweredThrows(e, resolved) ==
  IF resolved THEN wipeLoop(loopDelete(e, resolved), e.wipeIdx + 1)
  ELSE [loopDelete(e, resolved) EXCEPT !.wipePc = "idle"]

\* deleteMessage returns (it catches the error of its fetch) and the loop
\* goes on with the next id
deleteAnswered(e, resolved) ==
  wipeLoop(loopDelete(e, resolved), e.wipeIdx + 1)

\* a deleteMessage of the loop is answered, the loop goes on
WipeDeleted ==
  /\ wipePc = "deleteMessage"
  /\ \E resolved \in BOOLEAN : Commit(deleteAnswered(Cur, resolved))
  /\ UNCHANGED <<platformVars, replays, calendar, credentials>>
  /\ UNCHANGED <<startPc, pollOffset, pollBatch>>

\* faulty variant: the end of the wipe resets the cursor past the updates
\* the platform holds
wipeFinishResetsCursor(e) ==
  scheduleNextPoll([e EXCEPT !.isWiping = FALSE, !.wipePc = "idle",
                             !.wipeCaller = "none", !.pinnedId = null,
                             !.uniqueIds = <<>>,
                             !.nextUpdateOffset = Len(events) + 1,
                             !.hist.wipeLog = <<>>, !.hist.snapshot = <<>>,
                             !.hist.accepted = 0, !.hist.rejected = FALSE,
                             !.hist.confirms = 0, !.hist.failed = 0,
                             !.hist.wiped = TRUE])

\* the end of wipeMessages, after the confirmation was answered
\* (hist.wiped: a wipe has ended and no poll tick has started since)
wipeFinish(e) ==
  scheduleNextPoll([e EXCEPT !.isWiping = FALSE, !.wipePc = "idle",
                             !.wipeCaller = "none", !.pinnedId = null,
                             !.uniqueIds = <<>>,
                             !.hist.wipeLog = <<>>, !.hist.snapshot = <<>>,
                             !.hist.accepted = 0, !.hist.rejected = FALSE,
                             !.hist.confirms = 0, !.hist.failed = 0,
                             !.hist.wiped = TRUE])

\* the confirmation was sent as messageId, or not sent (null): on success
\* its id is tracked (hist.confirmation: the confirmation of the last wipe)
confirmationSent(e, messageId) ==
  IF messageId # null
  THEN [e EXCEPT !.trackedMessages = trackMessage(@, GroupChat, messageId),
                 !.hist.sinceReset = @ \cup {messageId},
                 !.hist.confirmation = messageId]
  ELSE [e EXCEPT !.hist.confirmation = null]

\* the confirmation is answered: tracked on success, the wipe ends, and a
\* pollTelegram that awaited the wipe goes on with its loop
WipeConfirmed ==
  /\ wipePc = "sendMessage"
  /\ \E ok \in Accepts \cap {nextMsgId <= MaxMsgId, FALSE} :
       LET sent == confirmationSent(Cur, IF ok THEN nextMsgId ELSE null)
           done == wipeFinish(sent)
       IN /\ Commit(IF wipeCaller = "poll"
                    THEN pollLoop(done, pollBatch, pollIdx + 1)
                    ELSE done)
          /\ nextMsgId' = IF ok THEN nextMsgId + 1 ELSE nextMsgId
  /\ UNCHANGED <<events, pinned, confirmed, backlog, replays, calendar, credentials>>
  /\ UNCHANGED <<startPc, pollOffset, pollBatch>>

\* -------------------------------------------------- the command surface
\* the argument lists a user types after /setautowipe: "24 14:30" (valid),
\* "48 25:00" (no such time of day), "200 14:30" (hours out of range),
\* "7x 14:30" (hours not an integer), "24 9:15" (time not HH:MM), "24"
\* (one argument) and none
T1430 == <<"1", "4", ":", "3", "0">>

SetArgs ==
  {<<<<"2", "4">>, T1430>>,
   <<<<"4", "8">>, <<"2", "5", ":", "0", "0">>>>,
   <<<<"2", "0", "0">>, T1430>>,
   <<<<"7", "x">>, T1430>>,
   <<<<"2", "4">>, <<"9", ":", "1", "5">>>>,
   <<<<"2", "4">>>>,
   <<>>}

\* the texts of the commands a user types, as [text, args]
CommandTexts ==
  {[text |-> t, args |-> <<>>] : t \in {WipeBare, PasswordCmd, HelpCmd}}
  \cup {[text |-> SetCmd, args |-> a] : a \in SetArgs}
  \cup {[text |-> SetCmdLonger, args |-> <<<<"2", "4">>, T1430>>]}

\* somebody posts a command in the group (a channel post has no sender)
NewCommand ==
  /\ Len(events) < MaxEvents
  /\ nextMsgId <= MaxMsgId
  /\ \E c \in CommandTexts, from \in {UserChat, SecondUser, NoSender} :
       /\ from # UserChat => c.text = PasswordCmd
       /\ Count(GroupChat, c.text) < MaxSame
       /\ events' = Append(events,
                           [Update(Len(events) + 1, GroupChat, nextMsgId,
                                   c.text, null)
                              EXCEPT !.args = c.args, !.from = from])
  /\ nextMsgId' = nextMsgId + 1
  /\ UNCHANGED <<pinned, confirmed, backlog, replays, calendar, credentials>>
  /\ UNCHANGED engineVars

Next ==
  \/ NewMessage
  \/ NewPin
  \/ StartSent
  \/ StartGotUpdates
  \/ PollTick
  \/ PollGotUpdates
  \/ PollTempSent
  \/ TimerDelete
  \/ CronTick
  \/ WipeGotPinned
  \/ WipeDeleted
  \/ WipeConfirmed

\* the platform keeps its contract: a batch holds updates from the offset on
Spec == Init /\ [][Next]_vars

\* the platform may also answer with a replayed or out-of-order batch; the
\* recurring job does not fire
NextReplay ==
  \/ NewMessage
  \/ NewPin
  \/ StartSent
  \/ StartGotUpdates
  \/ PollTick
  \/ PollGotUpdates
  \/ PollGotReplay
  \/ PollTempSent
  \/ TimerDelete
  \/ WipeGotPinned
  \/ WipeDeleted
  \/ WipeConfirmed

SpecReplay == Init /\ [][NextReplay]_vars

\* the command surface: the users post commands and the timers fire; the
\* recurring job does not fire
NextCommands ==
  \/ NewCommand
  \/ StartSent
  \/ StartGotUpdates
  \/ PollTick
  \/ PollGotUpdates
  \/ PollTempSent
  \/ PollPrivateSent
  \/ TimerDelete
  \/ PrivateTimerDelete

SpecCommands == Init /\ [][NextCommands]_vars

\* the updates of the loop specifications: plain messages and /wipe
\* commands of the group
LoopUpdates ==
  /\ Len(events) <= MaxLoopEvents
  /\ \A i \in 1..Len(events) :
       events[i].chat = GroupChat /\ events[i].text \in {"hello", WipeCmd}

\* the poll loop and the wipes: plain messages and /wipe commands arrive,
\* the recurring job fires
NextLoop ==
  \/ NewMessage /\ LoopUpdates'
  \/ StartSent
  \/ StartGotUpdates
  \/ PollTick
  \/ PollGotUpdates
  \/ CronTick
  \/ WipeGotPinned
  \/ WipeDeleted
  \/ WipeConfirmed

\* a network call that is awaited is answered (or fails) in the end
Answered ==
  WF_vars(StartSent \/ StartGotUpdates \/ PollGotUpdates
            \/ WipeGotPinned \/ WipeDeleted \/ WipeConfirmed)

\* timers fire, network calls are answered
SpecLive == Init /\ [][NextLoop]_vars /\ WF_vars(PollTick) /\ Answered

\* timers fire, but a network call may stay unanswered for ever (fetch is
\* called without a timeout)
SpecTimers == Init /\ [][NextLoop]_vars /\ WF_vars(PollTick)

\* ------------------------------------------------------ the other chats
\* the updates of the chat specification: plain messages and /password
\* commands of the group, /wipe commands posted in another chat
ChatUpdates ==
  \A i \in 1..Len(events) :
    \/ events[i].chat = GroupChat /\ events[i].text \in {"hello", PasswordCmd}
    \/ events[i].chat = OtherChat /\ events[i].text = WipeCmd

\* updates of several chats are fetched, private messages are sent and
\* self-destruct
NextChats ==
  \/ NewMessage /\ ChatUpdates'
  \/ NewCommand /\ ChatUpdates'
  \/ StartSent
  \/ StartGotUpdates
  \/ PollTick
  \/ PollGotUpdates
  \/ PollPrivateSent
  \/ TimerDelete
  \/ PrivateTimerDelete

SpecChats == Init /\ [][NextChats]_vars

\* ------------------------------------------- the exits of a poll tick
\* the updates of the exit specification: plain messages and /wipe commands
\* of the group, and /password posted without a sender (reading msg.from.id
\* throws inside the loop)
ExitUpdates ==
  /\ Len(events) <= MaxLoopEvents
  /\ \A i \in 1..Len(events) :
       /\ events[i].chat = GroupChat
       /\ \/ events[i].text \in {"hello", WipeCmd}
          \/ events[i].text = PasswordCmd /\ events[i].from = NoSender

\* poll ticks that end through the loop, through a wipe or through an error
NextExits ==
  \/ NewMessage /\ ExitUpdates'
  \/ NewCommand /\ ExitUpdates'
  \/ StartSent
  \/ StartGotUpdates
  \/ PollTick
  \/ PollGotUpdates
  \/ CronTick
  \/ WipeGotPinned
  \/ WipeDeleted
  \/ WipeConfirmed

SpecExits == Init /\ [][NextExits]_vars

\* ------------------------------------------------- self-destructing replies
\* the updates of the reply specification: plain messages and /status
\* commands of the group
TempUpdates ==
  /\ Len(events) <= MaxLoopEvents
  /\ \A i \in 1..Len(events) :
       events[i].chat = GroupChat /\ events[i].text \in {"hello", StatusCmd}

\* the timer of message m fires
TimerFires(m) == TimerDelete /\ m \in timers /\ timers' = timers \ {m}

\* replies are sent and self-destruct while the recurring job wipes
NextTemp ==
  \/ NewMessage /\ TempUpdates'
  \/ StartSent
  \/ StartGotUpdates
  \/ PollTick
  \/ PollGotUpdates
  \/ PollTempSent
  \/ TimerDelete
  \/ CronTick
  \/ WipeGotPinned
  \/ WipeDeleted
  \/ WipeConfirmed

\* every timer that was set fires (setTimeout)
SpecTemp ==
  Init /\ [][NextTemp]_vars /\ \A m \in MsgIds : WF_vars(TimerFires(m))

\* ------------------------------------------------ the index on its own
\* trackMessage and removeTrackedMessage applied, in any order and with any
\* id, to the index, while any message of the group may become the pinned one
indexRest ==
  <<events, nextMsgId, confirmed, backlog, replays, calendar, credentials,
    nextUpdateOffset, pollingTimeout, pollingActive, isWiping,
    pendingPolls, timers, startPc, pollPc, pollOffset, pollBatch, pollIdx,
    wipePc, wipeCaller, pinnedId, uniqueIds, wipeIdx, privateTimers>>

InitIndex ==
  /\ InitEngine
  /\ backlog = 0
  /\ calendar = [day |-> 1, length |-> 31, at |-> 1, stepFrom |-> 0]
  /\ credentials = "present"

Track ==
  /\ \E m \in MsgIds \cup {null} :
       /\ trackedMessages' = trackMessage(trackedMessages, GroupChat, m)
       /\ hist' = [hist EXCEPT
                     !.op = [name |-> "track", chatId |-> GroupChat, id |-> m,
                             outcome |-> "none"]]
  /\ UNCHANGED <<pinned, indexRest, schedVars>>

\* the chat is the group or a chat the index has no bucket for
Untrack ==
  /\ \E c \in {GroupChat, UserChat}, m \in MsgIds :
       /\ trackedMessages' = removeTrackedMessage(trackedMessages, c, m)
       /\ hist' = [hist EXCEPT
                     !.op = [name |-> "untrack", chatId |-> c, id |-> m,
                             outcome |-> "none"]]
  /\ UNCHANGED <<pinned, indexRest, schedVars>>

Repin ==
  /\ \E p \in MsgIds \cup {null} :
       /\ pinned' = p
       /\ hist' = [hist EXCEPT
                     !.op = [name |-> "pin", chatId |-> GroupChat, id |-> p,
                             outcome |-> "none"]]
  /\ UNCHANGED <<trackedMessages, indexRest, schedVars>>

\* what becomes of the fetch of deleteMessage: the platform deleted the
\* message, reports it as already gone, refuses the delete (ok: false for
\* another reason), or the fetch threw
DeleteOutcomes == {"deleted", "gone", "refused", "threw"}

\* await fetch(...) returned (the response is not looked at)
Resolved(outcome) == outcome # "threw"

\* deleteMessage is called and its fetch is answered
Delete ==
  /\ \E m \in MsgIds, outcome \in DeleteOutcomes :
       /\ trackedMessages' =
            deleteMessage(trackedMessages, GroupChat, m, Resolved(outcome))
       /\ hist' = [hist EXCEPT
                     !.op = [name |-> "delete", chatId |-> GroupChat, id |-> m,
                             outcome |-> outcome]]
  /\ UNCHANGED <<pinned, indexRest, schedVars>>

NextIndex ==
  \/ Track
  \/ Untrack
  \/ Repin
  \/ Delete

SpecIndex == InitIndex /\ [][NextIndex]_vars

\* ------------------------------------------------------------ the calendar
\* the instants of a day the clock passes through
Instants ==
  <<[hour |-> 3, minute |-> 0], [hour |-> 14, minute |-> 0],
    [hour |-> 14, minute |-> 30]>>

MonthLengths == {30, 31}

\* node-cron: does the expression match the instant?  A step (* / n) of
\* the hour matches the hours divisible by n; a step of the day of month
\* matches the days d with (d - stepFrom) divisible by n, where stepFrom is
\* 0 (the days divisible by n) or 1 (day 1 and every n-th day after it),
\* depending on the library's reading of the step.
Matches(x, cal) ==
  LET t == Instants[cal.at]
  IN /\ t.minute = x.minute
     /\ IF x.every = 0 THEN t.hour = x.hour ELSE t.hour % x.every = 0
     /\ x.days # 0 => (cal.day - cal.stepFrom) % x.days = 0

\* the instant after cal; a new month has len days
NextInstant(cal, len) ==
  IF cal.at < Len(Instants) THEN [cal EXCEPT !.at = @ + 1]
  ELSE IF cal.day < cal.length THEN [cal EXCEPT !.at = 1, !.day = @ + 1]
  ELSE [cal EXCEPT !.at = 1, !.day = 1, !.length = len]

\* the months start on day 1; the library reads a step one way or the other
InitCalendar ==
  /\ InitEngine
  /\ backlog = 0
  /\ calendar \in {[day |-> 1, length |-> len, at |-> 1, stepFrom |-> f] :
                     len \in MonthLengths, f \in {0, 1}}
  /\ credentials = "present"

\* the clock reaches the next instant; a job whose expression matches it
\* fires and calls wipeMessages
ClockTick ==
  /\ \E len \in MonthLengths :
       LET cal == NextInstant(calendar, len)
           due == {j \in cronJobs : Matches(j.cronExpression, cal)}
           aged == [Cur EXCEPT !.hist.since =
                      IF cal.at = 1 /\ @ >= 0 THEN Min2(@ + 1, MaxSince) ELSE @,
                               !.hist.fired = due # {}]
       IN /\ calendar' = cal
          /\ IF due = {} THEN Commit(aged)
             ELSE \E job \in due :
                    Commit(wipeMessages(
                      [aged EXCEPT !.hist.fires = Min2(@ + 1, 2),
                                   !.hist.gap = aged.hist.since,
                                   !.hist.since = 0,
                                   !.hist.firedJob = job.id],
                      "cron"))
  /\ UNCHANGED <<platformVars, replays, credentials>>
  /\ UNCHANGED <<startPc, pollOffset, pollBatch>>

\* the requests for a new schedule: "24 14:30", "48 03:00", "72 03:00",
\* "200 14:30" and "48 25:00"
Requests ==
  {<<<<"2", "4">>, T1430>>, <<<<"4", "8">>, DefaultTime>>,
   <<<<"7", "2">>, DefaultTime>>, <<<<"2", "0", "0">>, T1430>>,
   <<<<"4", "8">>, <<"2", "5", ":", "0", "0">>>>}

\* the checks of the /setautowipe branch and the call of
\* updateAutoWipeSchedule, applied to a request
Reconfigure ==
  /\ nextJobId <= MaxJobs
  /\ \E args \in Requests :
       LET r == [Cur EXCEPT !.hist.request = args]
       IN Commit(IF setAutoWipeAccepts(args)
                 THEN updateAutoWipeSchedule(
                        [r EXCEPT !.hist.since = -1, !.hist.gap = -1,
                                  !.hist.fires = 0, !.hist.firedJob = 0],
                        parseInt(args[1]), args[2])
                 ELSE r)
  /\ UNCHANGED <<platformVars, replays, calendar, credentials>>
  /\ UNCHANGED <<startPc, pollOffset, pollBatch>>

\* ------------------------------------------------ the hour-interval rule
\* requests whose hours are none of 24, 48, 72: "7 14:30", "7 25:30" (the
\* hour part is no hour of the day), "3 14:00", "100 14:30" (more hours
\* than a day has) and "7 14:75" (the minute part is no minute of the hour)
HourlyRequests ==
  {<<<<"7">>, T1430>>,
   <<<<"7">>, <<"2", "5", ":", "3", "0">>>>,
   <<<<"3">>, <<"1", "4", ":", "0", "0">>>>,
   <<<<"1", "0", "0">>, T1430>>,
   <<<<"7">>, <<"1", "4", ":", "7", "5">>>>}

\* the checks of the /setautowipe branch and the call of
\* updateAutoWipeSchedule, applied to a request for an hour interval
ReconfigureHourly ==
  /\ nextJobId <= MaxJobs
  /\ \E args \in HourlyRequests :
       LET r == [Cur EXCEPT !.hist.request = args]
       IN Commit(IF setAutoWipeAccepts(args)
                 THEN updateAutoWipeSchedule(
                        [r EXCEPT !.hist.since = -1, !.hist.gap = -1,
                                  !.hist.fires = 0, !.hist.firedJob = 0],
                        parseInt(args[1]), args[2])
                 ELSE r)
  /\ UNCHANGED <<platformVars, replays, calendar, credentials>>
  /\ UNCHANGED <<startPc, pollOffset, pollBatch>>

NextRule ==
  \/ ClockTick
  \/ ReconfigureHourly

SpecRule == InitCalendar /\ [][NextRule]_vars

\* ------------------------------------------------- missing credentials
\* the process is started without TELEGRAM_BOT_TOKEN or without
\* TELEGRAM_CHAT_ID
InitMissing ==
  /\ InitEngine
  /\ calendar = [day |-> 1, length |-> 31, at |-> 1, stepFrom |-> 0]
  /\ credentials \in {"noToken", "noChat"}

NextMissing ==
  \/ NewMessage
  \/ NewPin
  \/ StartSent
  \/ StartGotUpdates
  \/ PollTick
  \/ PollGotUpdates
  \/ CronTick
  \/ WipeGotPinned
  \/ WipeConfirmed

SpecMissing == InitMissing /\ [][NextMissing]_vars

\* the recurring job on the calendar (the network calls of the wipe the
\* job starts are not answered here)
NextCalendar ==
  \/ ClockTick
  \/ Reconfigure

SpecCalendar == InitCalendar /\ [][NextCalendar]_vars

\* ------------------------------------------------------------------ claims
Bucket == trackedMessages[GroupChat]

\* a step in which a wipe that was in flight ends
WipeEnds == isWiping /\ ~isWiping'

\* a step in which the wipe resets the index (and sends its confirmation)
WipeResets == wipePc # "sendMessage" /\ wipePc' = "sendMessage"

\* C1: the flags pollingActive and isWiping are never both true.
MutualExclusion == ~(pollingActive /\ isWiping)

\* C2: a wipe never issues a delete for the message that is pinned in the
\* chat at that time.
PinNeverDeleted ==
  [][Len(hist.wipeLog') > Len(hist.wipeLog)
       => hist.wipeLog'[Len(hist.wipeLog')] # pinned']_vars

\* C3 as stated: when a wipe ends, the bucket is exactly the pinned id the
\* wipe resolved, or empty if there was none.
WipeLeavesOnlyPin ==
  [][WipeEnds => Bucket' = IF pinnedId # null THEN <<pinnedId>> ELSE <<>>]_vars

\* C3 amended: the reset of the index leaves exactly the resolved pinned id
\* (or nothing); when the wipe ends the bucket holds nothing but that id and
\* ids tracked after the reset (the wipe's confirmation, ids ingested by a
\* poll tick, replies sent by a poll tick).
WipeLeavesPinAndLater ==
  [][/\ WipeResets =>
          Bucket' = IF pinnedId' # null THEN <<pinnedId'>> ELSE <<>>
     /\ WipeEnds => Range(Bucket') \subseteq ({pinnedId} \cup hist.sinceReset')
    ]_vars

\* C3 witness: a wipe that resolved a pin has reset the index and has sent
\* its confirmation.
WipeResetToPin ==
  /\ wipePc = "sendMessage"
  /\ pinnedId # null
  /\ pinnedId \in Range(hist.snapshot)
  /\ Len(hist.wipeLog) >= 1
  /\ Bucket = <<pinnedId>>

\* the module state of the engine and the position of its tasks
programVars ==
  <<nextUpdateOffset, pollingTimeout, pollingActive, isWiping,
    trackedMessages, pendingPolls, timers, startPc,
    pollPc, pollOffset, pollBatch, pollIdx,
    wipePc, wipeCaller, pinnedId, uniqueIds, wipeIdx,
    currentCronJob, autoWipeSchedule, cronJobs, nextJobId, privateTimers>>

\* C4: a wipe requested while one is in flight has no effect (shown on the
\* recurring job's request, which runs nothing else), and a wipe that ends
\* was entered once and has sent one confirmation, whatever requests
\* arrived meanwhile.
WipeNotReentrant ==
  [][/\ (isWiping /\ hist.cronTicks' # hist.cronTicks) =>
          (UNCHANGED programVars /\ nextMsgId' = nextMsgId)
     /\ WipeEnds => (hist.accepted = 1 /\ hist.confirms = 1)
    ]_vars

\* C4 witness: a wipe that rejected a second request has sent its one
\* confirmation.
WipeRejectedSecond ==
  isWiping /\ hist.rejected /\ wipePc = "sendMessage" /\ hist.confirms = 1

\* C5: when the delete loop of a wipe is over, the deletes it issued are the
\* distinct ids of the snapshot other than the resolved pinned id, each once,
\* in the order of their first tracking.
WipeDeletesSnapshot ==
  [][WipeResets =>
       LET log == hist.wipeLog'
           snap == hist.snapshot'
       IN /\ Range(log) = Range(snap) \ {pinnedId'}
          /\ \A i, j \in 1..Len(log) : i < j =>
               /\ log[i] # log[j]
               /\ \E k \in 1..Len(snap) :
                    /\ snap[k] = log[i]
                    /\ \A l \in 1..k : snap[l] # log[j]
    ]_vars

\* C5 witness: a wipe over a snapshot with a repeated id and the pinned id
\* has issued at least two deletes.
WipeDeletedSeveral ==
  /\ wipePc = "sendMessage"
  /\ Len(hist.wipeLog) >= 2
  /\ pinnedId \in Range(hist.snapshot)
  /\ Len(hist.snapshot) > Cardinality(Range(hist.snapshot))

IndexBound ==
  \A c \in Chats : Len(trackedMessages[c]) <= MAX_TRACKED_PER_CHAT

\* C9 witness: the bucket is full and an id tracked earlier was trimmed
\* (no wipe ran and no timer fired).
IndexTrimmed ==
  /\ Len(Bucket) = MAX_TRACKED_PER_CHAT
  /\ hist.cronTicks = 0
  /\ Count(GroupChat, WipeCmd) = 0
  /\ Cardinality(timers) = 2
  /\ hist.sinceReset \ Range(Bucket) # {}

\* C10: no step of a wipe cancels a self-destruct timer, and a timer that
\* fires for an id that is no longer tracked leaves the index and both
\* flags as they are.
IdempotentDelete ==
  [][/\ wipePc' # wipePc => timers \subseteq timers'
     /\ \A m \in timers :
          (timers' = timers \ {m} /\ m \notin Range(Bucket)) =>
             /\ trackedMessages' = trackedMessages
             /\ pollingActive' = pollingActive
             /\ isWiping' = isWiping
    ]_vars

\* C10 witness: after a wipe issued the delete of a message and reset the
\* index, that message's timer fired and its delete found the id untracked.
LateTimerFired ==
  /\ hist.lateDelete
  /\ wipePc = "sendMessage"
  /\ Bucket # <<>>
  /\ \E m \in Range(hist.wipeLog) : m \notin timers /\ m \notin Range(Bucket)

\* the expression of the stored schedule
StoredExpression ==
  cronExpression(autoWipeSchedule.hours, autoWipeSchedule.time)

\* C11: exactly one recurring job is active; it is the job the module
\* holds, its definition is the one derived from the stored
\* autoWipeSchedule, and no other job has fired since the last
\* reconfiguration.
OneActiveJob ==
  /\ Cardinality(cronJobs) = 1
  /\ \A j \in cronJobs :
       j.id = currentCronJob /\ j.cronExpression = StoredExpression
  /\ hist.firedJob \in {0, currentCronJob}

\* a whole number written in digits
IsInteger(tok) == tok # <<>> /\ \A i \in 1..Len(tok) : tok[i] \in Digits

\* a time of day HH:MM of the 24-hour clock
IsTimeOfDay(time) ==
  /\ TimePattern(time)
  /\ Number(SubSeq(time, 1, 2)) <= 23
  /\ Number(SubSeq(time, 4, 5)) <= 59

\* the arguments setautowipe is specified to accept
ValidSetInput(args) ==
  /\ Len(args) = 2
  /\ IsInteger(args[1])
  /\ Number(args[1]) \in 1..168
  /\ IsTimeOfDay(args[2])

\* C12: the dispatch of a /setautowipe whose arguments are invalid (wrong
\* count, hours not an integer in 1..168, time not a 24-hour HH:MM) leaves
\* the job and the stored schedule as they are and sends the usage message.
InvalidInputNoChange ==
  [][\A i \in 1..Len(events) :
       (/\ events[i].text = SetCmd
        /\ ~ValidSetInput(events[i].args)
        /\ hist.dispatched'[i] # hist.dispatched[i]) =>
          /\ UNCHANGED schedVars
          /\ hist.action'[i] = "usage"
          /\ pollPc' = "sendTempMessage"
    ]_vars

\* C13: while the schedule is (24, "14:30") the job fires at an instant
\* exactly when the instant is 14:30, and a request whose hours are outside
\* 1..168 changes neither the job nor the stored schedule.
DailyAtTime ==
  [][/\ (calendar' # calendar
           /\ autoWipeSchedule = [hours |-> 24, time |-> T1430]) =>
          (hist.fired' <=> Instants[calendar'.at] = [hour |-> 14, minute |-> 30])
     /\ (hist.request' # hist.request
           /\ parseInt(hist.request'[1]) \notin 1..168) =>
          UNCHANGED schedVars
    ]_vars

\* C13 witness: the schedule (24, "14:30") has fired on two days running
\* and the request "200 14:30" was made after that.
DailyFiredTwice ==
  /\ autoWipeSchedule = [hours |-> 24, time |-> T1430]
  /\ hist.fires = 2
  /\ hist.gap = 1
  /\ hist.request = <<<<"2", "0", "0">>, T1430>>

\* C14: two consecutive firings of the job are 2 days apart when hours is
\* 48 and 3 days apart when hours is 72.
EveryNthDay ==
  hist.gap # -1 =>
    /\ autoWipeSchedule.hours = 48 => hist.gap = 2
    /\ autoWipeSchedule.hours = 72 => hist.gap = 3

\* C15: once a poll tick has run, whenever no poll tick is in flight a poll
\* timer is pending or a wipe is in flight, and, the timers being fair, a
\* further poll tick starts again and again.
PollLoopAlive ==
  /\ []((hist.polled /\ ~pollingActive) => (pendingPolls > 0 \/ isWiping))
  /\ \/ []~hist.polled
     \/ []<><<~pollingActive /\ pollingActive'>>_vars

\* C16: the recurring job's wipe starts only when no poll tick is in
\* flight, and while a wipe is in flight no poll step runs (no update is
\* tracked or dispatched, no batch is fetched).
WipeWaitsForPoll ==
  [][/\ (~isWiping /\ isWiping' /\ wipeCaller' = "cron") => ~pollingActive
     /\ (isWiping /\ isWiping' /\ wipeCaller = "cron") =>
          /\ hist.dispatched' = hist.dispatched
          /\ pollBatch' = pollBatch
          /\ pollOffset' = pollOffset
    ]_vars

\* C17: every poll tick that started ends and every wipe that started ends.
NeverStuck ==
  /\ pollingActive ~> ~pollingActive
  /\ isWiping ~> ~isWiping

\* C18: the reply to /password, which holds the secret, goes to the private
\* chat of the user who sent the command and never to the group chat, and the
\* private message has its 60 s timer pending or its delete issued.
SecretOnlyToRequester ==
  \A s \in hist.secret :
    /\ events[s.update_id].text = PasswordCmd
    /\ s.to = events[s.update_id].from
    /\ s.to # GroupChat
    /\ [chat |-> s.to, message_id |-> s.message_id]
         \in privateTimers \cup hist.privateDeleted

\* the secret went to a user other than the first and its delete was issued
SecretDeleted ==
  \E s \in hist.secret :
    /\ s.to = SecondUser
    /\ [chat |-> s.to, message_id |-> s.message_id] \in hist.privateDeleted
    /\ privateTimers = {}

\* the tokens of the commands, with and without the suffix of the bot's name
CommandTokens ==
  {WipeCmd, PasswordCmd, StatusCmd, HelpCmd, SetCmd,
   "/wipe", "/password", "/status", "/help", "/setautowipe"}

\* C19: a dispatched message of the group triggers a command action exactly
\* when its token is a command token, with or without the bot's suffix.
ExactCommandMatch ==
  \A i \in 1..Len(events) :
    (events[i].chat = GroupChat /\ hist.dispatched[i] >= 1)
      => (hist.action[i] # "none" <=> events[i].text \in CommandTokens)

\* C20: with the bot credential or the chat identifier missing,
\* startTelegramBot has no call in flight, no poll timer is armed, and the
\* engine never polls or wipes.
MissingCredentialFatal ==
  credentials # "present"
    => /\ startPc = "done"
       /\ pendingPolls = 0 /\ pollingTimeout = "null"
       /\ ~hist.polled /\ ~pollingActive
       /\ ~isWiping /\ wipePc = "idle"

\* the message ids the platform gave to updates
EventIds ==
  {events[i].message_id : i \in 1..Len(events)}
    \cup {events[i].pinned_message : i \in 1..Len(events)}

\* a step in which the send of sendTempMessage is answered
TempAnswered ==
  pollPc = "sendTempMessage" /\ (pollPc' # pollPc \/ pollIdx' # pollIdx)

\* C21: when the send of sendTempMessage succeeds the new id is tracked and
\* gets a timer; when it fails no id but those of updates is tracked and no
\* timer but the one of the command message is set; a timer is removed only
\* by firing, and every timer that was set fires.
TempMessageLifecycle ==
  /\ [][/\ (TempAnswered /\ nextMsgId' # nextMsgId) =>
             /\ nextMsgId \in Range(Bucket')
             /\ nextMsgId \in timers'
             /\ nextMsgId \in hist.tempSent'
        /\ (TempAnswered /\ nextMsgId' = nextMsgId) =>
             /\ Range(Bucket') \ Range(Bucket) \subseteq EventIds
             /\ timers' \ timers
                  \subseteq {events[pollBatch[pollIdx]].message_id}
        /\ \A m \in timers \ timers' : TimerFires(m)
       ]_vars
  /\ \A m \in MsgIds : (m \in timers) ~> (m \notin timers)

\* C21 witness: a reply was sent, a wipe ran, and the reply's timer has fired
TempMessageDeleted ==
  /\ \E m \in hist.tempSent : m \notin timers
  /\ hist.cronTicks > 0
  /\ wipePc = "idle"

\* C22: before any request for a new schedule the stored schedule is
\* (48, "03:00"), exactly one job is scheduled, it is the job the module
\* holds, it runs at 03:00 every second day of the month, and when it has
\* fired wipeMessages has been called.
DefaultSchedule ==
  hist.request = <<>> =>
    /\ autoWipeSchedule = [hours |-> 48, time |-> DefaultTime]
    /\ cronJobs = {[id |-> currentCronJob,
                    cronExpression |-> CronExpr(0, 3, 0, 2)]}
    /\ hist.fired => Instants[calendar.at] = [hour |-> 3, minute |-> 0]
    /\ hist.fires > 0 => (isWiping /\ hist.firedJob = currentCronJob)

\* C22 witness: the default job has fired twice and no request was made
DefaultJobFired ==
  /\ hist.request = <<>>
  /\ hist.fires = 2
  /\ isWiping

\* C23: no bucket of the index holds the same message id twice.
NoDuplicateIds ==
  \A c \in Chats :
    Len(trackedMessages[c]) = Cardinality(Range(trackedMessages[c]))

\* a step that applied trackMessage with an id
Tracked == hist.op' # hist.op /\ hist.op'.name = "track" /\ hist.op'.id # null

\* C24: a trackMessage that trims removes entries from the front only (the
\* entries it keeps are the newest ones, in their order), and it keeps the
\* id of the chat's pinned message when that id is tracked.
TrimKeepsPin ==
  [][Tracked =>
       LET a == Append(Bucket, hist.op'.id)
       IN /\ \E k \in 0..Len(a) : Bucket' = SubSeq(a, k + 1, Len(a))
          /\ pinned \in Range(Bucket) => pinned \in Range(Bucket')
    ]_vars

\* a step that applied removeTrackedMessage
Untracked == hist.op' # hist.op /\ hist.op'.name = "untrack"

\* the entries of a bucket other than id, in their order
Others(arr, id) == SelectSeq(arr, LAMBDA x : x # id)

\* C25: after removeTrackedMessage(chatId, id) the id is not tracked for the
\* chat and the other entries are in the order they had; when the id or the
\* chat's bucket was absent the index is unchanged.
UntrackRemoves ==
  [][Untracked =>
       LET c == hist.op'.chatId
           id == hist.op'.id
       IN IF c \in DOMAIN trackedMessages /\ id \in Range(trackedMessages[c])
          THEN /\ id \notin Range(trackedMessages'[c])
               /\ Others(trackedMessages'[c], id) = Others(trackedMessages[c], id)
               /\ \A d \in DOMAIN trackedMessages \ {c} :
                    trackedMessages'[d] = trackedMessages[d]
          ELSE trackedMessages' = trackedMessages
    ]_vars

\* a step in which a deleteMessage was answered
Deleted == hist.op' # hist.op /\ hist.op'.name = "delete"

\* C26: deleteMessage untracks the id when the platform deleted the message
\* or reports it as already gone, and leaves the index as it is when the
\* delete failed for another reason.
UntrackOnlyOnSuccess ==
  [][Deleted =>
       IF hist.op'.outcome \in {"deleted", "gone"}
       THEN Bucket' = UntrackBucket(Bucket, hist.op'.id)
       ELSE Bucket' = Bucket
    ]_vars

\* C27: a wipe in which a delete failed goes on: when its loop is over it
\* has issued a delete for every id of the snapshot but the resolved pinned
\* id, it resets the index and sends the confirmation, and it ends with
\* isWiping cleared (the poll loop that awaited it may go on to the next
\* /wipe of its batch in the same run, which starts a new wipe).
BestEffortWipe ==
  /\ [][/\ (hist.failed' # 0 /\ hist.failed = 0) =>
             (isWiping' /\ wipePc' \in {"deleteMessage", "sendMessage"})
        /\ (WipeResets /\ hist.failed' # 0) =>
             /\ Range(hist.wipeLog') = Range(hist.snapshot') \ {pinnedId'}
             /\ Bucket' = IF pinnedId' # null THEN <<pinnedId'>> ELSE <<>>
             /\ hist.confirms' = 1
        /\ (wipePc = "sendMessage" /\ wipePc' # "sendMessage") =>
             \/ ~isWiping'
             \/ wipePc' = "getPinnedMessageId" /\ hist.failed' = 0
       ]_vars
  /\ (hist.failed # 0) ~> ~isWiping

\* C27 witness: the first delete of a wipe failed, the wipe issued another
\* delete after it, has reset the index and has sent its confirmation
WipeWentOn ==
  /\ hist.failed = 1
  /\ Len(hist.wipeLog) >= 2
  /\ wipePc = "sendMessage"
  /\ hist.confirms = 1

\* a poll tick passes the guard and starts fetching
PollStarts == pollPc # "getUpdates" /\ pollPc' = "getUpdates"

\* a poll tick leaves through its finally block
PollEnds == pollPc # "idle" /\ pollPc' = "idle"

\* a poll tick has left because reading the sender of an update threw
PollThrew ==
  /\ pollPc = "idle"
  /\ \E i \in 1..Len(pollBatch) :
       /\ events[pollBatch[i]].text = PasswordCmd
       /\ events[pollBatch[i]].from = NoSender
       /\ hist.action[pollBatch[i]] = "password"

\* C28: a poll tick starts fetching only when neither pollingActive nor
\* isWiping is true and sets pollingActive; at most one poll tick is in
\* flight at any time; when a tick has left, by the end of the loop or by an
\* error, pollingActive is clear, also where it scheduled the next timer.
OnePollInFlight ==
  /\ [][/\ PollStarts => (~pollingActive /\ ~isWiping /\ pollingActive')
        /\ PollEnds => ~pollingActive'
        /\ (PollEnds /\ pendingPolls' > pendingPolls) => ~pollingActive'
       ]_vars
  /\ [](hist.inflight <= 1)
  /\ [](pollingActive <=> hist.inflight = 1)
  /\ [](pollingActive <=> pollPc # "idle")

\* C28 witness: a tick left through an error, with pollingActive clear and
\* the next poll timer set
PollLeftByError == PollThrew /\ ~pollingActive /\ pendingPolls > 0

\* a poll tick receives a batch of at least one update
PollFetched ==
  pollPc = "getUpdates" /\ pollPc' # "getUpdates" /\ Len(pollBatch') > 0

\* the cursor is past the last update of the batch a tick received, also
\* where its loop stopped or threw part-way
CursorPastBatch ==
  [][PollFetched => nextUpdateOffset' = pollBatch'[Len(pollBatch')] + 1]_vars

\* no poll tick receives an update that an earlier poll tick received
NeverFetchedAgain ==
  [][PollFetched => Range(pollBatch') \cap hist.batched = {}]_vars

\* the same for the poll ticks of a process whose startup no tick overlapped
NeverFetchedAgainAfterStartup ==
  [][(PollFetched /\ ~hist.overlap') =>
       Range(pollBatch') \cap hist.batched = {}]_vars

\* C29: when a poll tick received a batch, the cursor is set past the last
\* update of the batch with the dispatch of the batch, and no update of
\* the batch is fetched again by a later tick, even if the dispatch failed
\* part-way.
CursorBeforeDispatch == CursorPastBatch /\ NeverFetchedAgain

\* the updates of the configured chat in the batch of the tick
BatchOfChat == {i \in Range(pollBatch) : events[i].chat = TELEGRAM_CHAT_ID}

\* update i went through the tracking of the loop: its message id, and the
\* pinned id of a pin notice, were handed to trackMessage
WasTracked(i) == hist.dispatched[i] >= 1

\* no update of the batch makes the loop throw
NoThrowInBatch ==
  \A i \in Range(pollBatch) :
    ~(events[i].text = PasswordCmd /\ events[i].from = NoSender)

\* when no update of the batch throws, every update of the configured chat
\* has been tracked when the tick leaves
TrackedUnlessThrown ==
  [][(PollEnds /\ NoThrowInBatch') =>
       \A i \in BatchOfChat' : WasTracked(i)']_vars

\* C30: when a poll tick leaves, every update of its batch that belongs to
\* the configured chat has had its message id (and the pinned id of a pin
\* notice) tracked, whatever commands or errors the other updates of the
\* batch met.
BatchTracked ==
  [][PollEnds => \A i \in BatchOfChat' : WasTracked(i)']_vars

\* a poll timer is armed while a wipe is in flight
ArmedInWipe == isWiping /\ isWiping' /\ pendingPolls' > pendingPolls

\* the only run that arms a poll timer during a wipe is the end of
\* startTelegramBot
OnlyStartupArmsInWipe ==
  [][ArmedInWipe => (startPc # "done" /\ startPc' = "done")]_vars

\* no poll tick passes the guard while a wipe is in flight
NoFetchInWipe == [][PollStarts => (~isWiping /\ ~isWiping')]_vars

\* C31: a wipe cancels the pending poll timer when it starts; while
\* isWiping is set no poll timer is pending and no poll tick begins
\* fetching.
WipeQuiesces ==
  /\ [][(~isWiping /\ isWiping') => pendingPolls' = 0]_vars
  /\ [](isWiping => pendingPolls = 0)
  /\ NoFetchInWipe

\* a wipe ends: the confirmation was answered and isWiping is cleared (the
\* poll loop that awaited the wipe may start the next wipe in the same run)
WipeCompletes == wipePc = "sendMessage" /\ wipePc' # "sendMessage"

\* C32: when a wipe completes, started by the recurring job or by a /wipe
\* command inside a poll tick, isWiping is cleared and a poll timer is
\* pending, and afterwards, the timers being fair, a poll tick starts.
PollResumesAfterWipe ==
  /\ [][WipeCompletes =>
          \/ ~isWiping' /\ pendingPolls' > 0 /\ hist.wiped'
          \/ wipePc' = "getPinnedMessageId"
       ]_vars
  /\ hist.wiped ~> ~hist.wiped

\* the confirmation of the wipe is answered with a message id
ConfirmationTracked ==
  [][(WipeCompletes /\ hist.confirmation' # null /\ nextMsgId' # nextMsgId) =>
       /\ hist.confirmation' = nextMsgId
       /\ nextMsgId \notin Range(hist.wipeLog)
       /\ nextMsgId \in Range(Bucket')
    ]_vars

\* the next wipe takes its snapshot: the confirmation of the wipe before
\* is in it, and when the loop is over a delete has been issued for it
\* unless it is the pinned message
ConfirmationWipedNext ==
  [][/\ (wipePc = "getPinnedMessageId" /\ wipePc' # wipePc
            /\ hist.confirmation # null) =>
          hist.confirmation \in Range(uniqueIds')
     /\ (WipeResets /\ hist.confirmation' # null) =>
          \/ hist.confirmation' \in Range(hist.wipeLog')
          \/ hist.confirmation' = pinnedId'
    ]_vars

\* C33: a confirmation that was sent is tracked after the reset of the
\* index and no delete of its own wipe names it; it is in the snapshot of
\* the next wipe, which issues a delete for it unless it is the pinned
\* message.
ConfirmationLifecycle == ConfirmationTracked /\ ConfirmationWipedNext

\* a delete has been issued for the message of update i
SelfCleaned(i) == events[i].message_id \in hist.issued

\* the message of update i is on its way to a delete: its 2 s timer is
\* pending, the reply to its command is awaited (the timer is set after
\* it), or it is tracked, so that the wipe in flight or the next one finds it
OnItsWay(i) ==
  \/ events[i].message_id \in timers
  \/ pollPc \in {"sendTempMessage", "sendPrivateMessage"}
       /\ pollBatch[pollIdx] = i
  \/ events[i].message_id \in Range(Bucket)

\* the updates in which a command was recognised
Recognised == {i \in 1..Len(events) : hist.action[i] # "none"}

\* C34: the message of every recognised command is issued a delete: at
\* any time the delete has been issued or the message is on its way to it,
\* by its 2 s timer or, for /wipe, by a wipe, also when the /wipe was
\* rejected because a wipe was in flight.
CommandsSelfClean ==
  \A i \in Recognised : SelfCleaned(i) \/ OnItsWay(i)

\* a request for an hour interval (hours none of 24, 48, 72) was accepted
HourlyAccepted ==
  /\ hist.request' # hist.request
  /\ setAutoWipeAccepts(hist.request')
  /\ parseInt(hist.request'[1]) \notin {24, 48, 72}

\* the minute part MM of a time HH:MM
MinutePart(time) == Number(SubSeq(time, 4, 5))

\* the rule derived for an hour interval is "minute MM of every h-th hour",
\* whatever the hour part of the time
RuleFromMinute ==
  [][HourlyAccepted =>
       StoredExpression' =
         CronExpr(MinutePart(hist.request'[2]), 0,
                  parseInt(hist.request'[1]), 0)]_vars

\* a job of an hour interval h fires at the instants of minute MM whose
\* hour is divisible by h
FiresOnMinute ==
  [][(calendar' # calendar /\ cronJobs # {}
        /\ autoWipeSchedule.hours \notin {24, 48, 72}) =>
       (hist.fired' <=>
          /\ Instants[calendar'.at].minute = MinutePart(autoWipeSchedule.time)
          /\ Instants[calendar'.at].hour % autoWipeSchedule.hours = 0)]_vars

\* when the minute part is a minute of the hour a job with the rule is
\* started, for every accepted h, those above 23 included
JobStartedForMinute ==
  [][(HourlyAccepted /\ MinutePart(hist.request'[2]) <= 59) =>
       /\ Cardinality(cronJobs') = 1
       /\ \A j \in cronJobs' :
            j.id = currentCronJob' /\ j.cronExpression = StoredExpression'
    ]_vars

\* C35: an accepted request with hours h none of 24, 48, 72 yields the rule
\* "minute MM of every h-th hour", made of the minute part of the time
\* only, and a job with that rule is started: after the request exactly
\* one job is active, the one the module holds.
HourIntervalRule ==
  /\ RuleFromMinute
  /\ FiresOnMinute
  /\ [][HourlyAccepted =>
          /\ Cardinality(cronJobs') = 1
          /\ \A j \in cronJobs' :
               j.id = currentCronJob' /\ j.cronExpression = StoredExpression'
       ]_vars

\* the ids the reset of a wipe removes from the bucket
DroppedByReset == Range(Bucket) \ Range(Bucket')

\* the ids of the snapshot that the reset removes have had their delete
\* issued by the wipe
SnapshotIdsDeleted ==
  [][WipeResets =>
       (DroppedByReset \cap Range(hist.snapshot'))
         \subseteq Range(hist.wipeLog')]_vars

\* C36: every id the reset of a wipe removes from the bucket has had a
\* delete issued by that wipe (the pinned id is kept by the reset), also an
\* id that a poll tick tracked between the snapshot and the reset.
NoSilentDrop ==
  [][WipeResets => DroppedByReset \subseteq Range(hist.wipeLog')]_vars

\* C37: at most one poll timer is pending, and the stored handle is the
\* handle of the pending timer.
OnePollTimer ==
  /\ pendingPolls <= 1
  /\ pendingPolls = 1 => pollingTimeout = "armed"

\* C37 witness: a wipe started by a /wipe command has ended and armed the
\* timer, the poll tick that awaited it has armed the timer again in its
\* finally block, and one timer is pending
TimerReplaced ==
  /\ hist.cronTicks = 0
  /\ hist.wiped
  /\ ~isWiping
  /\ pollPc = "idle"
  /\ startPc = "done"
  /\ pendingPolls = 1

\* C38: only the configured chat is indexed.  No bucket but the configured
\* chat's holds an id and the private chats have no bucket; an update of
\* another chat is neither tracked nor dispatched to a command; the step
\* in which a private message was sent tracks nothing but the rest of the
\* batch, and the delete of a private message leaves the index as it is.
OnlyConfiguredChat ==
  /\ [](/\ DOMAIN trackedMessages = Chats
        /\ trackedMessages[OtherChat] = <<>>)
  /\ [](\A i \in 1..Len(events) :
          events[i].chat # GroupChat =>
            hist.dispatched[i] = 0 /\ hist.action[i] = "none")
  /\ [][/\ hist.secret' # hist.secret =>
             /\ Range(Bucket') \ Range(Bucket) \subseteq
                  {events[pollBatch[k]].message_id :
                     k \in (pollIdx + 1)..Len(pollBatch)}
             /\ Len(Bucket') >= Len(Bucket)
        /\ hist.privateDeleted' # hist.privateDeleted =>
             trackedMessages' = trackedMessages
       ]_vars

\* C38 witness: an update of another chat was fetched, and a private
\* message was deleted whose id is also the id of a tracked message of the
\* configured chat
PrivateDeletedBesideIndex ==
  /\ \E i \in hist.batched : events[i].chat = OtherChat
  /\ \E d \in hist.privateDeleted :
       d.chat # GroupChat /\ d.message_id \in Range(Bucket)

\* a step of wipeMessages: the recurring job calls it, or one of its
\* awaited calls is answered
WipeStep ==
  \/ hist.cronTicks' # hist.cronTicks
  \/ wipePc # "idle" /\ (wipePc' # wipePc \/ wipeIdx' # wipeIdx)

\* no step of wipeMessages assigns the cursor; in the step in which a
\* poll tick receives a /wipe the cursor is the one the tick has set
WipeKeepsCursor ==
  [][LET WipeStarts == wipePc = "idle" /\ wipePc' # "idle"
     IN /\ WipeStep => nextUpdateOffset' = nextUpdateOffset
        /\ (WipeStarts /\ ~PollFetched) =>
             nextUpdateOffset' = nextUpdateOffset
        /\ (WipeStarts /\ PollFetched) =>
             nextUpdateOffset' = pollBatch'[Len(pollBatch')] + 1
    ]_vars

\* an update produced while a wipe runs is at or after the cursor
ProducedAheadOfCursor ==
  [][(isWiping /\ Len(events') > Len(events)) =>
       Len(events') >= nextUpdateOffset']_vars

\* a poll tick asks for the updates from the cursor on and a batch holds
\* every update from that offset on
TickFetchesFromCursor ==
  [][/\ (pollPc = "idle" /\ pollPc' = "getUpdates") =>
          pollOffset' = nextUpdateOffset
     /\ PollFetched =>
          \A i \in 1..Len(events) : i >= pollOffset => i \in Range(pollBatch')
    ]_vars

====
